---- MODULE Spec2Model ----
(***************************************************************************)
(* go-objstore Python SDK: the unified facade (ObjectStoreClient), its     *)
(* three transport adapters (RestClient, GrpcClient, QuicClient), the      *)
(* tenacity retry decorator on the REST adapter, the error mapping of each *)
(* adapter and the sync/async bridge (_run_async) of the QUIC facade.      *)
(*                                                                         *)
(* Spec       : one facade call at a time, issued from a plain blocking    *)
(*              context; the environment answers every wire attempt.       *)
(* BridgeSpec : one _run_async call at a time, from a context with or      *)
(*              without a running scheduler, with the worker thread.       *)
(* StreamSpec : one get_stream generator at a time, consumed, exhausted or *)
(*              abandoned by its caller, and close() of the facade.        *)
(* DataSpec   : put and get of the three adapters against one server, with *)
(*              the bytes and the metadata size they report.               *)
(***************************************************************************)
EXTENDS Integers, Sequences, FiniteSets, TLC

VARIABLES
    protocol,   \* ObjectStoreClient.protocol, fixed at construction
    op,         \* the facade operation in progress ("none" when idle)
    pc,         \* position of the facade call: "idle", "calling", "done"
    attempts,   \* wire requests issued by the call in progress
    log,        \* per attempt: the native signal and what the adapter made of it
    outcome,    \* what the call surfaced to the caller (value or raised error)
    running,    \* a cooperative scheduler is running on the calling context
    bpc,        \* position of the caller inside _run_async
    coro,       \* what the coroutine produces once it is driven
    thread,     \* the worker thread of _run_async
    new_loop,   \* the scheduler the worker creates
    result,     \* nonlocal result of _run_async
    exception,  \* nonlocal exception of _run_async
    returned,   \* what _run_async handed back to its caller
    spawned,    \* worker threads started by the facade call in progress
    driven,     \* contexts on which the call invoked run / run_until_complete
    spc,        \* position of a get_stream generator, seen by its consumer
    stream_sig, \* the transport's answer to the streaming request
    sent,       \* the chunks the transport iterator delivers, in arrival order
    pos,        \* how many of them the adapter has taken
    yielded,    \* the chunks handed to the consumer so far
    response,   \* the streamed response (or RPC) of the generator
    stream_loop,    \* the scheduler the facade creates for a QUIC stream
    stream_error,   \* what the generator raised
    collected,  \* the abandoned generator object has been reclaimed
    session,    \* the adapter's connection (Session, channel, AsyncClient)
    event_loop, \* ObjectStoreClient._event_loop
    closes,     \* calls of ObjectStoreClient.close on this client
    close_outcome,  \* what the last close returned or raised
    store,      \* the server: the object held under each key
    written,    \* per key: the bytes of the last successful put
    got,        \* per adapter: what its last get returned
    policy,     \* the LifecyclePolicy object last constructed
    payload,    \* what add_policy last put on the wire
    max_retries, \* ObjectStoreClient.max_retries, fixed at construction
    file,       \* the file-like object given to put: its content and read position
    bodies,     \* the request body of each attempt of the put in progress
    run_loops,  \* schedulers asyncio.run has created on the caller for this facade
    requests,   \* wire requests issued for the current stream
    responses,  \* messages the Get RPC has delivered
    get_result, \* what GrpcClient.get returned for them
    c_pc,       \* position of each concurrent caller in _run_async
    c_coro,     \* the coroutine each caller passed
    c_running,  \* whether a scheduler runs on the caller's thread
    c_thread,   \* state of the worker thread each caller started
    c_cell,     \* the closure cells result / exception of each invocation
    c_returned  \* what each caller was handed

callVars   == <<protocol, op, pc, attempts, log, outcome>>
bridgeVars == <<running, bpc, coro, thread, new_loop, result, exception, returned,
                spawned, driven>>
streamVars == <<spc, stream_sig, sent, pos, yielded, response, stream_loop,
                stream_error, collected>>
closeVars  == <<session, event_loop, closes, close_outcome>>
dataVars   == <<store, written, got>>
policyVars == <<policy, payload>>
configVars == <<max_retries>>
putVars    == <<file, bodies>>
loopVars   == <<run_loops>>
wireVars   == <<requests>>
msgVars    == <<responses, get_result>>
concVars   == <<c_pc, c_coro, c_running, c_thread, c_cell, c_returned>>
vars       == <<protocol, op, pc, attempts, log, outcome,
                running, bpc, coro, thread, new_loop, result, exception, returned,
                spawned, driven,
                spc, stream_sig, sent, pos, yielded, response, stream_loop,
                stream_error, collected,
                session, event_loop, closes, close_outcome,
                store, written, got,
                policy, payload,
                max_retries,
                file, bodies,
                run_loops,
                requests,
                responses, get_result,
                c_pc, c_coro, c_running, c_thread, c_cell, c_returned>>

-----------------------------------------------------------------------------
(* Bounds and program constants *)

\* number of distinct response payloads the server may send
MaxPayload == 2

\* stop_after_attempt(3) of every @retry decorator of RestClient
StopAfterAttempt == 3

Payloads == 1..MaxPayload

\* most chunks of one streamed response
MaxChunks == 3

\* most close() calls on one client
MaxCloses == 2

\* longest object, in bytes
MaxLen == 2

\* most messages of one Get reply stream
MaxFragments == 2

\* largest small value given for days_after_creation and retention_seconds
MaxGiven == 2

\* largest max_retries a client is constructed with
MaxConfigured == 2

\* "max_retries: int = 3" of every constructor
DefaultMaxRetries == 3

\* direct calls made through one facade before it is left alone
MaxCalls == 2

\* threads calling one facade at the same time
MaxCallers == 2

\* messages of one Get response stream
MaxMessages == 2

\* largest size a metadata submessage reports
MaxSize == 2

\* seconds in a day: "self.days_after_creation * 86400"
SecondsPerDay == 86400

\* default age in days: "30 * 86400"
DefaultDays == 30

-----------------------------------------------------------------------------
(* Vocabulary *)

Protocols == {"rest", "grpc", "quic"}

Ops == {"put", "get", "delete", "list", "exists", "get_metadata",
        "update_metadata", "health", "archive", "add_policy",
        "remove_policy", "get_replication_policy"}

\* HTTP status codes the server may answer with
HttpStatuses == {200, 201, 400, 401, 403, 404, 500}

\* shape of an HTTP body: a JSON object with a message, a JSON object whose
\* message says "not found", or text that is not JSON
Bodies == {"json", "json_not_found", "text"}

\* exceptions of the requests library: Timeout, ConnectionError and any other
\* RequestException (ChunkedEncodingError, ContentDecodingError, ...)
RequestsExceptions == {"Timeout", "ConnectionError", "ChunkedEncodingError"}

\* exceptions of httpx: TimeoutException, ConnectError and any other
\* TransportError (ReadError, RemoteProtocolError, ...)
HttpxExceptions == {"TimeoutException", "ConnectError", "ReadError"}

\* grpc.StatusCode values an RpcError may carry, and OK for a reply
GrpcCodes == {"OK", "NOT_FOUND", "DEADLINE_EXCEEDED", "UNAVAILABLE", "INTERNAL",
              "INVALID_ARGUMENT", "UNAUTHENTICATED", "PERMISSION_DENIED"}

HttpSignal(s, b, d) == [type |-> "http", status |-> s, name |-> "", body |-> b, data |-> d]
ExcSignal(e)        == [type |-> "exc", status |-> 0, name |-> e, body |-> "", data |-> 0]
RpcSignal(c, b, d)  == [type |-> "rpc", status |-> 0, name |-> c, body |-> b, data |-> d]

HttpSignals ==
    {HttpSignal(s, b, d) : s \in {200, 201}, b \in {"json", "text"}, d \in Payloads}
    \cup {HttpSignal(s, b, 0) : s \in HttpStatuses \ {200, 201}, b \in Bodies}

\* a reply message carries a success/exists flag ("success" or "failure")
RpcSignals ==
    {RpcSignal("OK", b, d) : b \in {"success", "failure"}, d \in Payloads}
    \cup {RpcSignal(c, "details", 0) : c \in GrpcCodes \ {"OK"}}

Signals(p) ==
    CASE p = "rest" -> HttpSignals \cup {ExcSignal(e) : e \in RequestsExceptions}
      [] p = "quic" -> HttpSignals \cup {ExcSignal(e) : e \in HttpxExceptions}
      [] p = "grpc" -> RpcSignals

\* An outcome is a returned value or a raised error.  err is the class raised:
\* NotFound, Validation, Authentication, Server, Connection, Timeout (the
\* subclasses of objstore.exceptions), Base (ObjectStoreError itself), Raw (an
\* exception of the transport library), RuntimeError, CancelledError.
Ok(v, d, s) == [kind |-> "ok", err |-> "", msg |-> "", val |-> v, data |-> d, success |-> s]
Err(e, m)   == [kind |-> "err", err |-> e, msg |-> m, val |-> "", data |-> 0, success |-> FALSE]
None        == [kind |-> "none", err |-> "", msg |-> "", val |-> "", data |-> 0, success |-> FALSE]

\* response.json() succeeds
JsonOk(b) == b \in {"json", "json_not_found"}

\* message of a 400 / 5xx error: the body's "message" field, else response.text
BodyMessage(b) == IF JsonOk(b) THEN "json_message" ELSE "raw_text"

\* the operations whose REST / QUIC response model has a success flag
\* (PutResponse, DeleteResponse, PolicyResponse, ArchiveResponse)
HasSuccessFlag(o) ==
    o \in {"put", "delete", "update_metadata", "archive", "add_policy", "remove_policy"}

\* the statement after "self._handle_error(response)": reached only when the
\* handler returns instead of raising; it returns a response with
\* success=False, or an empty result for the models without the flag
AfterHandleError(o, h) ==
    IF h.kind = "err" THEN h
    ELSE IF HasSuccessFlag(o) THEN Ok("failed", 0, FALSE) ELSE Ok("empty", 0, TRUE)

-----------------------------------------------------------------------------
(* RestClient *)

\* an error handler that has no branch for 404
RestHandleErrorWithout404(sig) ==
    CASE sig.status = 401  -> Err("Authentication", "fixed")
      [] sig.status = 400  -> Err("Validation", BodyMessage(sig.body))
      [] sig.status >= 500 -> Err("Server", BodyMessage(sig.body))
      [] OTHER             -> Err("Base", "raw_text")

\* RestClient._handle_error: 404, 401, 400, >= 500, anything else
RestHandleError(sig) ==
    CASE sig.status = 404  -> Err("NotFound", "fixed")
      [] sig.status = 401  -> Err("Authentication", "fixed")
      [] sig.status = 400  -> Err("Validation", BodyMessage(sig.body))
      [] sig.status >= 500 -> Err("Server", BodyMessage(sig.body))
      [] OTHER             -> Err("Base", "raw_text")

\* the status codes an operation of RestClient takes for success
RestSuccess(o) ==
    CASE o = "put" -> {201}
      [] o \in {"update_metadata", "add_policy"} -> {200, 201}
      [] OTHER -> {200}

\* the except clauses closing every method of RestClient: Timeout and
\* ConnectionError are translated, any other exception passes through
RestExcept(e) ==
    CASE e = "Timeout"         -> Err("Timeout", "fixed")
      [] e = "ConnectionError" -> Err("Connection", "exception_text")
      [] OTHER                 -> Err("Raw", e)

\* the body of one RestClient method for one wire response
RestResponse(o, sig) ==
    CASE o = "exists" ->
            Ok(IF sig.status = 200 THEN "exists_true" ELSE "exists_false", 0, TRUE)
      [] o = "get" /\ sig.status = 200 ->
            Ok("data", sig.data, TRUE)
      [] o # "exists" /\ o # "get" /\ sig.status \in RestSuccess(o) ->
            IF JsonOk(sig.body) THEN Ok("response", sig.data, TRUE)
            ELSE Err("Raw", "JSONDecodeError")
      [] o = "delete" /\ sig.status = 500 /\ sig.body = "json_not_found" ->
            Err("NotFound", "fixed")
      [] OTHER -> AfterHandleError(o, RestHandleError(sig))

\* one attempt of a RestClient method
RestClient(o, sig) ==
    IF sig.type = "exc" THEN RestExcept(sig.name) ELSE RestResponse(o, sig)

-----------------------------------------------------------------------------
(* QuicClient *)

\* an error handler that returns for the statuses without a branch of their own
QuicHandleErrorNoElse(sig) ==
    CASE sig.status = 404  -> Err("NotFound", "fixed")
      [] sig.status = 401  -> Err("Authentication", "fixed")
      [] sig.status = 400  -> Err("Validation", BodyMessage(sig.body))
      [] sig.status >= 500 -> Err("Server", BodyMessage(sig.body))
      [] OTHER             -> None

\* QuicClient._handle_error: every branch raises
QuicHandleError(sig) ==
    CASE sig.status = 404  -> Err("NotFound", "fixed")
      [] sig.status = 401  -> Err("Authentication", "fixed")
      [] sig.status = 400  -> Err("Validation", BodyMessage(sig.body))
      [] sig.status >= 500 -> Err("Server", BodyMessage(sig.body))
      [] OTHER             -> Err("Base", "raw_text")

QuicSuccess(o) ==
    CASE o = "put" -> {201}
      [] o = "add_policy" -> {200, 201}
      [] OTHER -> {200}

\* the except clauses of the QuicClient coroutines: TimeoutException and
\* ConnectError are translated, any other exception passes through
QuicExcept(e) ==
    CASE e = "TimeoutException" -> Err("Timeout", "fixed")
      [] e = "ConnectError"     -> Err("Connection", "exception_text")
      [] OTHER                  -> Err("Raw", e)

QuicResponse(o, sig) ==
    CASE o = "exists" ->
            Ok(IF sig.status = 200 THEN "exists_true" ELSE "exists_false", 0, TRUE)
      [] o = "get" /\ sig.status = 200 ->
            Ok("data", sig.data, TRUE)
      [] o # "exists" /\ o # "get" /\ sig.status \in QuicSuccess(o) ->
            IF JsonOk(sig.body) THEN Ok("response", sig.data, TRUE)
            ELSE Err("Raw", "JSONDecodeError")
      [] OTHER -> AfterHandleError(o, QuicHandleError(sig))

\* QuicClient.health ends with "except Exception": every exception raised in
\* its body, the ones of _handle_error included, leaves as ConnectionError
QuicHealthExcept(out) ==
    IF out.kind = "err" /\ out.err # "Timeout"
    THEN Err("Connection", "exception_text")
    ELSE out

\* one attempt of a QuicClient coroutine
QuicClient(o, sig) ==
    LET out == IF sig.type = "exc" THEN QuicExcept(sig.name) ELSE QuicResponse(o, sig)
    IN  IF o = "health" THEN QuicHealthExcept(out) ELSE out

-----------------------------------------------------------------------------
(* GrpcClient *)

\* GrpcClient._handle_grpc_error
GrpcHandleError(sig) ==
    CASE sig.name = "NOT_FOUND"         -> Err("NotFound", "details")
      [] sig.name = "DEADLINE_EXCEEDED" -> Err("Timeout", "details")
      [] sig.name = "UNAVAILABLE"       -> Err("Connection", "details")
      [] sig.name = "INTERNAL"          -> Err("Server", "details")
      [] OTHER                          -> Err("Base", "details")

\* the reply of one GrpcClient method when the RPC completes with OK
GrpcReply(o, sig) ==
    LET flag == (sig.body = "success")
    IN  CASE o \in {"get", "list", "health"} -> Ok("response", sig.data, TRUE)
          [] o = "exists" ->
                Ok(IF flag THEN "exists_true" ELSE "exists_false", 0, TRUE)
          [] o \in {"get_metadata", "get_replication_policy"} ->
                IF flag THEN Ok("response", sig.data, TRUE) ELSE Ok("empty", 0, TRUE)
          [] OTHER -> Ok("response", sig.data, flag)

\* one attempt of a GrpcClient method
GrpcClient(o, sig) ==
    IF sig.name = "OK" THEN GrpcReply(o, sig) ELSE GrpcHandleError(sig)

-----------------------------------------------------------------------------
(* The adapter the facade holds, and the retry decorator *)

\* ObjectStoreClient.__init__ selects the adapter by protocol
Adapter(p, o, sig) ==
    CASE p = "rest" -> RestClient(o, sig)
      [] p = "grpc" -> GrpcClient(o, sig)
      [] p = "quic" -> QuicClient(o, sig)

\* @retry decorates the methods of RestClient only
Decorated(p, o) == p = "rest"

\* tenacity's default retry predicate, retry_if_exception_type(): any exception
RetryIf(out) == out.kind = "err"

\* stop=stop_after_attempt(3)
Stop(n) == n >= StopAfterAttempt

\* a decorator without reraise=True: tenacity raises its own RetryError around
\* the last attempt
RaiseRetryError(lg) == Err("RetryError", lg[Len(lg)].out.err)

\* reraise=True: when the decorator gives up, the last attempt's exception is
\* raised as it is
Reraise(lg) == lg[Len(lg)].out

-----------------------------------------------------------------------------
(* The facade call: ObjectStoreClient.<op> from a blocking context *)

\* a bridge that never offloads: the coroutine is driven on the calling context
NeverUseWorker(r) == FALSE

\* asyncio.get_running_loop() succeeds: the worker path is taken
UseWorker(r) == r

\* asyncio.run(coro): refuses to start under a running scheduler, otherwise
\* drives the coroutine on a fresh scheduler and hands its outcome on
AsyncioRun(r, c) ==
    IF r THEN Err("RuntimeError", "asyncio_run_from_running_loop") ELSE c

\* what a facade method hands to its caller for the adapter outcome c: the
\* QUIC coroutine goes through _run_async, which in a blocking context (no
\* running scheduler) ends in asyncio.run(coro); REST and gRPC are returned
\* as they are
Facade(p, c) == IF p = "quic" THEN AsyncioRun(FALSE, c) ELSE c

BridgeIdle ==
    /\ running = FALSE
    /\ bpc = "idle"
    /\ coro = None
    /\ thread = "none"
    /\ new_loop = "none"
    /\ result = None
    /\ exception = None
    /\ returned = None
    /\ spawned = 0
    /\ driven = {}

StreamIdle ==
    /\ spc = "idle"
    /\ stream_sig = None
    /\ sent = <<>>
    /\ pos = 0
    /\ yielded = <<>>
    /\ response = "none"
    /\ stream_loop = "none"
    /\ stream_error = None
    /\ collected = FALSE

\* ObjectStoreClient.__init__: the adapter is constructed with its connection
\* resource; self._event_loop = None
Constructed ==
    /\ session = "open"
    /\ event_loop = "none"
    /\ closes = 0
    /\ close_outcome = None

\* no object stored, no get made yet
DataIdle ==
    /\ store = [k \in {"a", "b"} |-> [present |-> FALSE, bytes |-> <<>>]]
    /\ written = [k \in {"a", "b"} |-> [present |-> FALSE, bytes |-> <<>>]]
    /\ got = [p \in {"rest", "grpc", "quic"} |->
                [present |-> FALSE, key |-> "", data |-> <<>>,
                 size |-> [some |-> FALSE, n |-> 0], supplied |-> FALSE]]

\* no policy constructed, nothing sent
PolicyIdle ==
    /\ policy = [present |-> FALSE,
                 retention_seconds |-> [some |-> FALSE, n |-> 0],
                 days_after_creation |-> [some |-> FALSE, n |-> 0],
                 has_destination_type |-> FALSE,
                 given |-> [some |-> FALSE, n |-> 0]]
    /\ payload = [by |-> "", fields |-> {}, retention_seconds |-> [some |-> FALSE, n |-> 0]]

\* a client constructed without max_retries
ConfigDefault == max_retries = DefaultMaxRetries

\* the values max_retries is given at construction
ConfiguredRetries == 1..MaxConfigured

\* no file-like object in use
FileIdle ==
    /\ file = [content |-> <<>>, pos |-> 0]
    /\ bodies = <<>>

\* the threads that share one facade
Callers == 1..MaxCallers

\* no thread is inside _run_async
ConcIdle ==
    /\ c_pc = [t \in Callers |-> "idle"]
    /\ c_coro = [t \in Callers |-> None]
    /\ c_running = [t \in Callers |-> FALSE]
    /\ c_thread = [t \in Callers |-> "none"]
    /\ c_cell = [t \in Callers |-> [result |-> None, exception |-> None]]
    /\ c_returned = [t \in Callers |-> None]

\* no Get RPC has been made
NoMessages ==
    /\ responses = <<>>
    /\ get_result = [present |-> FALSE, data |-> <<>>, size |-> [some |-> FALSE, n |-> 0]]

\* no streaming request has been sent
NoRequests == requests = 0

\* ObjectStoreClient.__init__: no scheduler has been created for the facade
NoLoops == run_loops = 0

CallIdle ==
    /\ op = "none"
    /\ pc = "idle"
    /\ attempts = 0
    /\ log = <<>>
    /\ outcome = None

Init ==
    /\ protocol \in Protocols
    /\ max_retries \in ConfiguredRetries
    /\ FileIdle
    /\ NoLoops
    /\ NoRequests
    /\ NoMessages
    /\ ConcIdle
    /\ CallIdle
    /\ BridgeIdle
    /\ StreamIdle
    /\ Constructed
    /\ DataIdle
    /\ PolicyIdle

\* the caller invokes ObjectStoreClient.<o>
Call(o) ==
    /\ pc = "idle"
    /\ op' = o
    /\ pc' = "calling"
    /\ attempts' = 0
    /\ log' = <<>>
    /\ outcome' = None
    /\ UNCHANGED <<concVars, msgVars, wireVars, loopVars, putVars, configVars, policyVars, protocol, bridgeVars, streamVars, closeVars, dataVars>>

\* one wire request and the transport's answer sig; the adapter turns it into
\* a value or an error, and the retry decorator (where there is one) decides
\* between another attempt and handing the outcome to the caller
Attempt(sig) ==
    /\ pc = "calling"
    /\ LET out == Adapter(protocol, op, sig)
           lg  == Append(log, [sig |-> sig, out |-> out])
       IN  /\ attempts' = attempts + 1
           /\ log' = lg
           /\ IF Decorated(protocol, op) /\ RetryIf(out) /\ ~Stop(attempts + 1)
              THEN /\ pc' = "calling"
                   /\ outcome' = outcome
              ELSE /\ pc' = "done"
                   /\ outcome' = Facade(protocol,
                                        IF Decorated(protocol, op) THEN Reraise(lg) ELSE out)
    /\ UNCHANGED <<concVars, msgVars, wireVars, loopVars, putVars, configVars, policyVars, protocol, op, bridgeVars, streamVars, closeVars, dataVars>>

\* the caller takes the outcome; the facade is ready for the next call
Return ==
    /\ pc = "done"
    /\ op' = "none"
    /\ pc' = "idle"
    /\ attempts' = 0
    /\ log' = <<>>
    /\ outcome' = None
    /\ UNCHANGED <<concVars, msgVars, wireVars, loopVars, putVars, configVars, policyVars, protocol, bridgeVars, streamVars, closeVars, dataVars>>

Next ==
    \/ \E o \in Ops : Call(o)
    \/ \E sig \in Signals(protocol) : Attempt(sig)
    \/ Return

Spec == Init /\ [][Next]_vars

-----------------------------------------------------------------------------
(* The bridge: ObjectStoreClient._run_async *)

\* Exception subclasses are caught by "except Exception" in the worker;
\* CancelledError derives from BaseException only
IsException(out) == out.kind = "err" /\ out.err # "CancelledError"

\* what a QuicClient coroutine can produce once driven: the outcome of the
\* adapter for some wire answer, a RuntimeError (httpx on a closed client), or
\* a cancellation
CoroOutcomes ==
    {QuicClient(o, sig) : o \in Ops, sig \in Signals("quic")}
    \cup {Err("RuntimeError", "closed_client"), Err("CancelledError", "")}

BridgeInit ==
    /\ protocol = "quic"
    /\ CallIdle
    /\ BridgeIdle
    /\ StreamIdle
    /\ Constructed
    /\ DataIdle
    /\ PolicyIdle
    /\ ConfigDefault
    /\ FileIdle
    /\ NoLoops
    /\ NoRequests
    /\ NoMessages
    /\ ConcIdle

\* a facade operation of the QUIC protocol enters _run_async(coro)
RunAsync(c, r) ==
    /\ bpc = "idle"
    /\ run_loops < MaxCalls
    /\ bpc' = "get_running_loop"
    /\ running' = r
    /\ coro' = c
    /\ thread' = "none"
    /\ new_loop' = "none"
    /\ result' = None
    /\ exception' = None
    /\ returned' = None
    /\ spawned' = 0
    /\ driven' = {}
    /\ UNCHANGED <<concVars, msgVars, wireVars, loopVars, putVars, configVars, policyVars, callVars, streamVars, closeVars, dataVars>>

\* loop = asyncio.get_running_loop(); with a running scheduler the worker
\* thread is started, otherwise RuntimeError leads to the except branch
GetRunningLoop ==
    /\ bpc = "get_running_loop"
    /\ IF UseWorker(running)
       THEN /\ thread' = "started"
            /\ spawned' = spawned + 1
            /\ bpc' = "join"
       ELSE /\ thread' = thread
            /\ spawned' = spawned
            /\ bpc' = "except_runtime_error"
    /\ UNCHANGED <<concVars, msgVars, wireVars, loopVars, putVars, configVars, policyVars, callVars, streamVars, closeVars, dataVars, running, coro, new_loop, result, exception, returned, driven>>

\* run_in_thread: new_loop = asyncio.new_event_loop(); set_event_loop(new_loop)
ThreadNewLoop ==
    /\ thread = "started"
    /\ thread' = "running"
    /\ new_loop' = "open"
    /\ UNCHANGED <<concVars, msgVars, wireVars, loopVars, putVars, configVars, policyVars, callVars, streamVars, closeVars, dataVars, running, bpc, coro, result, exception, returned,
                   spawned, driven>>

\* run_in_thread: result = new_loop.run_until_complete(coro), except Exception
ThreadRunUntilComplete ==
    /\ thread = "running"
    /\ thread' = "finally"
    /\ result' = IF coro.kind = "ok" THEN coro ELSE result
    /\ exception' = IF IsException(coro) THEN coro ELSE exception
    /\ driven' = driven \cup {"worker"}
    /\ UNCHANGED <<concVars, msgVars, wireVars, loopVars, putVars, configVars, policyVars, callVars, streamVars, closeVars, dataVars, running, bpc, coro, new_loop, returned, spawned>>

\* run_in_thread: finally new_loop.close(); the thread ends
ThreadFinally ==
    /\ thread = "finally"
    /\ thread' = "dead"
    /\ new_loop' = "closed"
    /\ UNCHANGED <<concVars, msgVars, wireVars, loopVars, putVars, configVars, policyVars, callVars, streamVars, closeVars, dataVars, running, bpc, coro, result, exception, returned,
                   spawned, driven>>

\* a caller that does not wait for the worker
NotJoined(t) == TRUE

\* thread.join(): the caller goes on only once the worker has ended
Joined(t) == t = "dead"

\* thread.join() returns; "if exception: raise exception" else "return result".
\* A RuntimeError raised here is caught by the enclosing "except RuntimeError"
Join ==
    /\ bpc = "join"
    /\ Joined(thread)
    /\ IF exception # None
       THEN IF exception.err = "RuntimeError"
            THEN /\ bpc' = "except_runtime_error"
                 /\ returned' = returned
            ELSE /\ bpc' = "returned"
                 /\ returned' = exception
       ELSE /\ bpc' = "returned"
            /\ returned' = result
    /\ UNCHANGED <<concVars, msgVars, wireVars, loopVars, putVars, configVars, policyVars, callVars, streamVars, closeVars, dataVars, running, coro, thread, new_loop, result, exception,
                   spawned, driven>>

\* the facade's own scheduler is used when there is an open one
OwnLoopUsable(l) == l = "open"

\* asyncio.run creates a scheduler of its own unless it refuses to start
NewLoops(r) == IF r THEN 0 ELSE 1

\* except RuntimeError: "if self._event_loop is None or
\* self._event_loop.is_closed(): return asyncio.run(coro)", which creates a
\* scheduler, drives the coroutine and closes the scheduler; "else: return
\* self._event_loop.run_until_complete(coro)".  Neither branch assigns
\* self._event_loop
ExceptRuntimeError ==
    /\ bpc = "except_runtime_error"
    /\ bpc' = "returned"
    /\ IF OwnLoopUsable(event_loop)
       THEN /\ returned' = coro
            /\ run_loops' = run_loops
       ELSE /\ returned' = AsyncioRun(running, coro)
            /\ run_loops' = run_loops + NewLoops(running)
    /\ driven' = driven \cup {"caller"}
    /\ UNCHANGED <<concVars, msgVars, wireVars, putVars, configVars, policyVars, callVars, streamVars, closeVars, dataVars, running, coro, thread, new_loop, result, exception, spawned>>

\* the facade operation hands the outcome of _run_async to its caller
BridgeReturn ==
    /\ bpc = "returned"
    /\ bpc' = "idle"
    /\ running' = FALSE
    /\ coro' = None
    /\ thread' = "none"
    /\ new_loop' = "none"
    /\ result' = None
    /\ exception' = None
    /\ returned' = None
    /\ spawned' = 0
    /\ driven' = {}
    /\ UNCHANGED <<concVars, msgVars, wireVars, loopVars, putVars, configVars, policyVars, callVars, streamVars, closeVars, dataVars>>

BridgeNext ==
    \/ \E c \in CoroOutcomes, r \in BOOLEAN : RunAsync(c, r)
    \/ GetRunningLoop
    \/ ThreadNewLoop
    \/ ThreadRunUntilComplete
    \/ ThreadFinally
    \/ Join
    \/ ExceptRuntimeError
    \/ BridgeReturn

\* the worker is an OS thread and the caller a running thread: each step that
\* is enabled is eventually taken; the coroutine terminates (it is driven in
\* one step)
BridgeFairness ==
    /\ WF_vars(GetRunningLoop)
    /\ WF_vars(ThreadNewLoop)
    /\ WF_vars(ThreadRunUntilComplete)
    /\ WF_vars(ThreadFinally)
    /\ WF_vars(Join)
    /\ WF_vars(ExceptRuntimeError)

BridgeSpec == BridgeInit /\ [][BridgeNext]_vars /\ BridgeFairness

-----------------------------------------------------------------------------
(* Streaming download: get_stream of the adapters and of the facade, and close *)

\* byte values: the lowest and the highest
Bytes == {0, 255}

\* the byte strings of at most n bytes
BytesUpTo(n) == UNION {[1..k -> Bytes] : k \in 0..n}

\* a chunk (at most chunk_size bytes of the body, the data of one message):
\* empty, one byte, several bytes
ChunkValues == {<<>>, <<0>>, <<255>>, <<0, 255>>}

\* what iter_content / aiter_bytes / the message iterator of stub.Get delivers:
\* chunks in arrival order, some of them possibly empty
ChunkSeqs == UNION {[1..k -> ChunkValues] : k \in 0..MaxChunks}

\* the transport's answers to a streaming request: a success, an error status
\* or a transport exception
StreamSignals(p) ==
    {sig \in Signals(p) : sig.data <= 1 /\ sig.status # 201 /\ sig.body \notin Bodies \ {"text"}
                          /\ sig.body # "failure"}

\* response.status_code == 200; the RPC iterator does not raise
StreamOk(sig) ==
    \/ sig.type = "http" /\ sig.status = 200
    \/ sig.type = "rpc" /\ sig.name = "OK"

\* what the generator of adapter p raises for a failed streaming request
StreamRaise(p, sig) ==
    CASE p = "rest" -> IF sig.type = "exc" THEN RestExcept(sig.name) ELSE RestHandleError(sig)
      [] p = "quic" -> IF sig.type = "exc" THEN QuicExcept(sig.name) ELSE QuicHandleError(sig)
      [] p = "grpc" -> GrpcHandleError(sig)

\* the response once the generator has raised: RestClient leaves the unread
\* stream=True response as it is, QuicClient leaves its "async with" block, a
\* failed RPC has ended; a transport exception means there was no response
ResponseAfterRaise(p, sig) ==
    CASE sig.type = "exc" -> "none"
      [] p = "rest"       -> "open"
      [] OTHER            -> "released"

\* a generator that hands on every chunk, empty ones included
YieldAll(chunk) == TRUE

\* "if chunk:" / "if response.data:": an empty chunk is not yielded
Truthy(chunk) == chunk # <<>>

\* the for loop of the generator from position i on: the position of the next
\* chunk it yields, or Len(s) + 1 when the iterator ends first
RECURSIVE NextYield(_, _)
NextYield(s, i) ==
    IF i > Len(s) THEN i
    ELSE IF Truthy(s[i]) THEN i
    ELSE NextYield(s, i + 1)

\* a decorator that sees the exceptions raised while the generator is consumed
RetriedWhenDecorated(p) == Decorated(p, "get_stream")

\* @retry on RestClient.get_stream wraps a generator function: the call it
\* guards only builds the generator object and returns at once; the body, and
\* with it the request, runs when the consumer advances the generator, outside
\* the decorator.  An exception raised then reaches the consumer directly
StreamRetried(p) == FALSE

\* the variables of the bridge a stream or a close leaves alone
bridgeRest == <<bpc, coro, thread, new_loop, result, exception, returned, spawned>>

\* the caller invokes ObjectStoreClient.get_stream(key), from a context with
\* (r) or without a running scheduler: a generator object is created, none of
\* its body has run yet
GetStream(sig, chunks, r) ==
    /\ spc = "idle"
    /\ session = "open"
    /\ spc' = "created"
    /\ stream_sig' = sig
    /\ sent' = chunks
    /\ running' = r
    /\ driven' = {}
    /\ requests' = 0
    /\ UNCHANGED <<concVars, msgVars, loopVars, putVars, configVars, policyVars, callVars, bridgeRest, closeVars, dataVars, pos, yielded, response,
                   stream_loop, stream_error, collected>>

\* the consumer asks for the next chunk.  The QUIC facade creates its loop on
\* the first call and drives the adapter's async generator with
\* loop.run_until_complete on the calling context, which raises RuntimeError
\* when a scheduler is already running there; "finally: loop.close()" runs
\* when the generator ends or raises.  REST and gRPC: "yield from" the
\* adapter's generator.
NextChunk ==
    /\ spc \in {"created", "streaming"}
    /\ driven' = IF protocol = "quic" THEN driven \cup {"caller"} ELSE driven
    /\ IF protocol = "quic" /\ running
       THEN /\ spc' = "failed"
            /\ stream_error' = Err("RuntimeError", "loop_while_another_loop_is_running")
            /\ stream_loop' = "closed"
            /\ UNCHANGED <<pos, yielded, response>>
       ELSE IF ~StreamOk(stream_sig)
       THEN /\ IF StreamRetried(protocol) /\ ~Stop(requests + 1)
               THEN /\ spc' = "created"
                    /\ stream_error' = stream_error
               ELSE /\ spc' = "failed"
                    /\ stream_error' = StreamRaise(protocol, stream_sig)
            /\ response' = ResponseAfterRaise(protocol, stream_sig)
            /\ stream_loop' = IF protocol = "quic" THEN "closed" ELSE stream_loop
            /\ UNCHANGED <<pos, yielded>>
       ELSE LET j == NextYield(sent, pos + 1)
            IN  IF j > Len(sent)
                THEN /\ spc' = "exhausted"
                     /\ pos' = Len(sent)
                     /\ yielded' = yielded
                     /\ response' = "released"
                     /\ stream_loop' = IF protocol = "quic" THEN "closed" ELSE stream_loop
                     /\ stream_error' = stream_error
                ELSE /\ spc' = "streaming"
                     /\ pos' = j
                     /\ yielded' = Append(yielded, sent[j])
                     /\ response' = "open"
                     /\ stream_loop' = IF protocol = "quic" THEN "open" ELSE stream_loop
                     /\ stream_error' = stream_error
    /\ requests' = IF spc = "created" /\ ~(protocol = "quic" /\ running)
                   THEN requests + 1 ELSE requests
    /\ UNCHANGED <<concVars, msgVars, loopVars, putVars, configVars, policyVars, callVars, bridgeRest, closeVars, dataVars, running, stream_sig, sent, collected>>

\* the consumer stops early and closes the generator: GeneratorExit is raised
\* at the yield.  Only the facade's QUIC branch has a finally clause there
\* (loop.close()); no generator closes its response, and the QUIC facade does
\* not aclose() the async generator it was driving
Abandon ==
    /\ spc \in {"created", "streaming"}
    /\ spc' = "abandoned"
    /\ stream_loop' = IF protocol = "quic" /\ spc = "streaming" THEN "closed" ELSE stream_loop
    /\ UNCHANGED <<concVars, msgVars, wireVars, loopVars, putVars, configVars, policyVars, callVars, bridgeVars, closeVars, dataVars, stream_sig, sent, pos, yielded,
                   response, stream_error, collected>>

\* the abandoned generator object is reclaimed.  The response of RestClient and
\* the RPC of GrpcClient are dropped with the frame and end in their
\* finalizers; the async generator of the QUIC facade is finalized through its
\* loop, which is closed, so its "async with" block is never left
Collect ==
    /\ spc = "abandoned"
    /\ ~collected
    /\ collected' = TRUE
    /\ response' = IF protocol # "quic" /\ response = "open" THEN "released" ELSE response
    /\ UNCHANGED <<concVars, msgVars, wireVars, loopVars, putVars, configVars, policyVars, callVars, bridgeVars, closeVars, dataVars, spc, stream_sig, sent, pos, yielded,
                   stream_loop, stream_error>>

\* the consumer is done with the generator
StreamDone ==
    /\ \/ spc \in {"exhausted", "failed"}
       \/ spc = "abandoned" /\ collected
    /\ spc' = "idle"
    /\ stream_sig' = None
    /\ sent' = <<>>
    /\ pos' = 0
    /\ yielded' = <<>>
    /\ response' = "none"
    /\ stream_loop' = "none"
    /\ stream_error' = None
    /\ collected' = FALSE
    /\ running' = FALSE
    /\ driven' = {}
    /\ requests' = 0
    /\ UNCHANGED <<concVars, msgVars, loopVars, putVars, configVars, policyVars, callVars, bridgeRest, closeVars, dataVars>>

\* an adapter whose close fails on a connection that is closed already
AdapterCloseOnce(p, sess) ==
    IF sess = "closed" THEN Err("Raw", "already_closed") ELSE Ok("closed", 0, TRUE)

\* RestClient.close: self.session.close(); GrpcClient.close: "if self.channel:
\* self.channel.close()"; QuicClient.close: await self.client.aclose().  Each
\* library call is a no-op on a connection that is closed already
AdapterClose(p, sess) == Ok("closed", 0, TRUE)

\* _run_async(coro) as a whole, for a coroutine that produces c: the worker
\* path under a running scheduler r (an Exception is re-raised, a RuntimeError
\* falls into "except RuntimeError", a cancellation leaves result None),
\* asyncio.run otherwise
RunAsyncOutcome(r, c) ==
    IF UseWorker(r)
    THEN IF IsException(c)
         THEN IF c.err = "RuntimeError" THEN AsyncioRun(r, c) ELSE c
         ELSE IF c.kind = "ok" THEN c ELSE None
    ELSE AsyncioRun(r, c)

\* ObjectStoreClient.close, from a context with (r) or without a running
\* scheduler: QUIC goes through _run_async and then closes the facade's own
\* loop if there is an open one; REST and gRPC call the adapter
FacadeClose(r) ==
    /\ spc = "idle"
    /\ closes < MaxCloses
    /\ LET c   == AdapterClose(protocol, session)
           out == IF protocol = "quic" THEN RunAsyncOutcome(r, c) ELSE c
       IN  /\ close_outcome' = out
           /\ session' = IF c.kind = "ok" THEN "closed" ELSE session
           /\ event_loop' = IF protocol = "quic" /\ out.kind = "ok" /\ event_loop = "open"
                            THEN "none" ELSE event_loop
    /\ closes' = closes + 1
    /\ running' = r
    /\ driven' = IF protocol = "quic" THEN (IF UseWorker(r) THEN {"worker"} ELSE {"caller"})
                 ELSE {}
    /\ run_loops' = IF protocol = "quic" /\ ~UseWorker(r) THEN run_loops + NewLoops(r)
                    ELSE run_loops
    /\ UNCHANGED <<concVars, msgVars, wireVars, putVars, configVars, policyVars, op, pc, attempts, log, outcome, protocol, bridgeRest, streamVars, dataVars>>

\* a closed client is replaced by a new ObjectStoreClient(protocol=p)
Construct(p) ==
    /\ spc = "idle"
    /\ closes >= 1
    /\ protocol' = p
    /\ session' = "open"
    /\ event_loop' = "none"
    /\ closes' = 0
    /\ close_outcome' = None
    /\ running' = FALSE
    /\ driven' = {}
    /\ run_loops' = 0
    /\ UNCHANGED <<concVars, msgVars, wireVars, putVars, configVars, policyVars, op, pc, attempts, log, outcome, bridgeRest, streamVars, dataVars>>

StreamInit ==
    /\ protocol \in Protocols
    /\ CallIdle
    /\ BridgeIdle
    /\ StreamIdle
    /\ Constructed
    /\ DataIdle
    /\ PolicyIdle
    /\ ConfigDefault
    /\ FileIdle
    /\ NoLoops
    /\ NoRequests
    /\ NoMessages
    /\ ConcIdle

StreamNext ==
    \/ \E p \in Protocols : Construct(p)
    \/ \E sig \in StreamSignals(protocol), r \in BOOLEAN :
          \E chunks \in IF StreamOk(sig) THEN ChunkSeqs ELSE {<<>>} :
              GetStream(sig, chunks, r)
    \/ NextChunk
    \/ Abandon
    \/ Collect
    \/ StreamDone
    \/ \E r \in BOOLEAN : FacadeClose(r)

StreamSpec == StreamInit /\ [][StreamNext]_vars

-----------------------------------------------------------------------------
(* Object data and metadata: put and get of the three adapters *)

Keys == {"a", "b"}

\* the byte strings an object may hold: the empty one, both byte values
ObjectValues == BytesUpTo(MaxLen)

\* Optional[int] of Metadata.size
Some(n) == [some |-> TRUE, n |-> n]
Absent  == [some |-> FALSE, n |-> 0]

NoResult == [present |-> FALSE, key |-> "", data |-> <<>>, size |-> Absent,
             supplied |-> FALSE]

\* the request each adapter puts on the wire for put(k, d): RestClient sends d
\* as the raw body, QuicClient a multipart form whose part "file" has filename
\* k and content d, GrpcClient a PutRequest with data d
PutRequest(p, k, d) ==
    CASE p = "rest" -> [format |-> "raw", key |-> k, filename |-> "", content |-> d]
      [] p = "quic" -> [format |-> "multipart", key |-> k, filename |-> k, content |-> d]
      [] p = "grpc" -> [format |-> "proto", key |-> k, filename |-> "", content |-> d]

\* the server stores the object content of an upload: the raw body, the
\* content of the part "file", the data field
ServerStored(req) == req.content

\* the server's HTTP answer to GET objects/<k>: the object as the body, with
\* or without a Content-Length header
HttpGetResponse(b, withLength) ==
    [content |-> b, has_length |-> withLength, length |-> Len(b)]

\* the server's reply stream to Get: the object cut into data fragments, the
\* first message carrying the metadata submessage (size = length of the
\* object) when the server supplies it
\* the ways of cutting b into exactly k consecutive fragments (empty ones
\* allowed)
RECURSIVE CutInto(_, _)
CutInto(b, k) ==
    IF k = 1 THEN {<<b>>}
    ELSE UNION {{<<SubSeq(b, 1, i)>> \o rest : rest \in CutInto(SubSeq(b, i + 1, Len(b)), k - 1)}
                : i \in 0..Len(b)}

Fragmentations(b) == UNION {CutInto(b, k) : k \in 1..MaxFragments}

GrpcGetReply(fs, withMeta, n) ==
    [i \in 1..Len(fs) |->
        [data |-> fs[i], has_metadata |-> (withMeta /\ i = 1), size |-> n]]

\* size=int(response.headers.get("Content-Length", 0))
HeaderSize(resp) == IF resp.has_length THEN Some(resp.length) ELSE Some(0)

\* RestClient.get / QuicClient.get on a 200 response
HttpGet(resp) == [data |-> resp.content, size |-> HeaderSize(resp)]

\* GrpcClient._proto_to_metadata: size=proto_metadata.size if
\* proto_metadata.size else None
ProtoToMetadataSize(n) == IF n # 0 THEN Some(n) ELSE Absent

\* a loop that keeps the data of the last message only
RECURSIVE GrpcLastData(_, _)
GrpcLastData(msgs, acc) ==
    IF msgs = <<>> THEN acc
    ELSE GrpcLastData(Tail(msgs), Head(msgs).data)

\* GrpcClient.get: data = b""; for response in responses: data += response.data
RECURSIVE GrpcData(_, _)
GrpcData(msgs, acc) ==
    IF msgs = <<>> THEN acc
    ELSE GrpcData(Tail(msgs), acc \o Head(msgs).data)

\* GrpcClient.get: metadata = Metadata(); every message that has the
\* metadata field replaces it
RECURSIVE GrpcSize(_, _)
GrpcSize(msgs, acc) ==
    IF msgs = <<>> THEN acc
    ELSE GrpcSize(Tail(msgs),
                  IF Head(msgs).has_metadata THEN ProtoToMetadataSize(Head(msgs).size)
                  ELSE acc)

GrpcGet(msgs) == [data |-> GrpcData(msgs, <<>>), size |-> GrpcSize(msgs, Absent)]

\* adapter p uploads d under k and the server answers success (201 / OK with
\* success); what was read from k before is out of date
DataPut(p, k, d) ==
    /\ store' = [store EXCEPT ![k] =
                    [present |-> TRUE, bytes |-> ServerStored(PutRequest(p, k, d))]]
    /\ written' = [written EXCEPT ![k] = [present |-> TRUE, bytes |-> d]]
    /\ got' = [q \in Protocols |-> IF got[q].key = k THEN NoResult ELSE got[q]]
    /\ UNCHANGED <<concVars, msgVars, wireVars, loopVars, putVars, configVars, policyVars, callVars, bridgeVars, streamVars, closeVars>>

\* adapter p downloads k; the server answers with the stored object, cut into
\* the fragments fs on gRPC, with or without the size (Content-Length header,
\* metadata submessage)
DataGet(p, k, withSize, fs) ==
    /\ store[k].present
    /\ LET b == store[k].bytes
           r == IF p = "grpc" THEN GrpcGet(GrpcGetReply(fs, withSize, Len(b)))
                ELSE HttpGet(HttpGetResponse(b, withSize))
       IN  got' = [got EXCEPT ![p] =
                      [present |-> TRUE, key |-> k, data |-> r.data, size |-> r.size,
                       supplied |-> withSize]]
    /\ UNCHANGED <<concVars, msgVars, wireVars, loopVars, putVars, configVars, policyVars, callVars, bridgeVars, streamVars, closeVars, store, written>>

\* the three adapters are used side by side against one server; the facade
\* of the other specifications stays idle
DataInit ==
    /\ protocol = "rest"
    /\ CallIdle
    /\ BridgeIdle
    /\ StreamIdle
    /\ Constructed
    /\ DataIdle
    /\ PolicyIdle
    /\ ConfigDefault
    /\ FileIdle
    /\ NoLoops
    /\ NoRequests
    /\ NoMessages
    /\ ConcIdle

DataNext ==
    \/ \E p \in Protocols, k \in Keys, d \in ObjectValues : DataPut(p, k, d)
    \/ \E p \in Protocols, k \in Keys, withSize \in BOOLEAN :
          \E fs \in IF p = "grpc" /\ store[k].present
                    THEN Fragmentations(store[k].bytes) ELSE {<<>>} :
              DataGet(p, k, withSize, fs)

DataSpec == DataInit /\ [][DataNext]_vars

-----------------------------------------------------------------------------
(* LifecyclePolicy: construction and serialization by add_policy *)

\* values a caller passes for days_after_creation: None, small numbers, 30
GivenDays == {Absent} \cup {Some(n) : n \in (0..MaxGiven) \cup {DefaultDays}}

\* values a caller passes for retention_seconds: None, small numbers, a day
\* and 30 days in seconds
GivenRetention ==
    {Absent} \cup {Some(n) : n \in (0..MaxGiven) \cup {SecondsPerDay, DefaultDays * SecondsPerDay}}

\* the fields of the model, in declaration order
PolicyFields == {"id", "prefix", "retention_seconds", "action", "destination_type",
                 "destination_settings", "days_after_creation", "enabled"}

\* a model_post_init that lets the age in days win over an explicit retention
PostInitDaysFirst(r, d) ==
    IF d.some THEN Some(d.n * SecondsPerDay)
    ELSE IF ~r.some THEN Some(DefaultDays * SecondsPerDay)
    ELSE r

\* LifecyclePolicy.model_post_init: retention_seconds after construction
ModelPostInit(r, d) ==
    IF d.some /\ ~r.some THEN Some(d.n * SecondsPerDay)
    ELSE IF ~r.some THEN Some(DefaultDays * SecondsPerDay)
    ELSE r

\* a model without exclude=True on any field
NothingExcluded(f) == FALSE

\* Field(..., exclude=True): days_after_creation only
Excluded(f) == f = "days_after_creation"

\* the field f of policy pol holds None
IsNoneField(pol, f) ==
    CASE f = "retention_seconds"   -> ~pol.retention_seconds.some
      [] f = "days_after_creation" -> ~pol.days_after_creation.some
      [] f = "destination_type"    -> ~pol.has_destination_type
      [] OTHER                     -> FALSE

\* policy.model_dump(exclude_none=True): the JSON body of REST and QUIC
ModelDump(pol) ==
    [fields |-> {f \in PolicyFields : ~Excluded(f) /\ ~IsNoneField(pol, f)},
     retention_seconds |-> pol.retention_seconds]

\* objstore_pb2.LifecyclePolicy(id=..., prefix=..., retention_seconds=...,
\* action=..., destination_type=..., destination_settings=...)
ProtoPolicy(pol) ==
    [fields |-> {"id", "prefix", "retention_seconds", "action", "destination_type",
                 "destination_settings"},
     retention_seconds |-> pol.retention_seconds]

\* the caller constructs LifecyclePolicy(id, prefix, action, retention_seconds=r,
\* days_after_creation=d, destination_type=...)
NewPolicy(r, d, dest) ==
    /\ policy' = [present |-> TRUE,
                  retention_seconds |-> ModelPostInit(r, d),
                  days_after_creation |-> d,
                  has_destination_type |-> dest,
                  given |-> r]
    /\ payload' = [by |-> "", fields |-> {}, retention_seconds |-> Absent]
    /\ UNCHANGED <<concVars, msgVars, wireVars, loopVars, putVars, configVars, callVars, bridgeVars, streamVars, closeVars, dataVars>>

\* add_policy(policy) on adapter p puts the policy on the wire
AddPolicy(p) ==
    /\ policy.present
    /\ LET body == IF p = "grpc" THEN ProtoPolicy(policy) ELSE ModelDump(policy)
       IN  payload' = [by |-> p, fields |-> body.fields,
                       retention_seconds |-> body.retention_seconds]
    /\ UNCHANGED <<concVars, msgVars, wireVars, loopVars, putVars, configVars, callVars, bridgeVars, streamVars, closeVars, dataVars, policy>>

PolicyInit ==
    /\ protocol = "rest"
    /\ CallIdle
    /\ BridgeIdle
    /\ StreamIdle
    /\ Constructed
    /\ DataIdle
    /\ PolicyIdle
    /\ ConfigDefault
    /\ FileIdle
    /\ NoLoops
    /\ NoRequests
    /\ NoMessages
    /\ ConcIdle

PolicyNext ==
    \/ \E r \in GivenRetention, d \in GivenDays, dest \in BOOLEAN : NewPolicy(r, d, dest)
    \/ \E p \in Protocols : AddPolicy(p)

PolicySpec == PolicyInit /\ [][PolicyNext]_vars

-----------------------------------------------------------------------------
(* RestClient.put with a file-like object, under the retry decorator *)

\* the answers to a put request: success, an error status, an exception
PutSignals ==
    {sig \in Signals("rest") : sig.data <= 1 /\ sig.body \notin {"text", "json_not_found"}}

\* data.read(): the bytes from the read position to the end
Read(f) == SubSeq(f.content, f.pos + 1, Len(f.content))

\* the caller invokes RestClient.put(key, data) with data a file-like object
\* positioned at its start
PutFile(content) ==
    /\ pc = "idle"
    /\ op' = "put"
    /\ pc' = "calling"
    /\ attempts' = 0
    /\ log' = <<>>
    /\ outcome' = None
    /\ file' = [content |-> content, pos |-> 0]
    /\ bodies' = <<>>
    /\ UNCHANGED <<concVars, msgVars, wireVars, loopVars, configVars, policyVars, protocol, bridgeVars, streamVars, closeVars, dataVars>>

\* one attempt of the decorated put: "body_data = data.read()" runs again in
\* every attempt, on the same file object, then the request is sent and
\* answered by sig
PutAttempt(sig) ==
    /\ pc = "calling"
    /\ op = "put"
    /\ LET out == RestClient(op, sig)
           lg  == Append(log, [sig |-> sig, out |-> out])
       IN  /\ attempts' = attempts + 1
           /\ log' = lg
           /\ bodies' = Append(bodies, Read(file))
           /\ file' = [file EXCEPT !.pos = Len(file.content)]
           /\ IF RetryIf(out) /\ ~Stop(attempts + 1)
              THEN /\ pc' = "calling"
                   /\ outcome' = outcome
              ELSE /\ pc' = "done"
                   /\ outcome' = Reraise(lg)
    /\ UNCHANGED <<concVars, msgVars, wireVars, loopVars, configVars, policyVars, protocol, op, bridgeVars, streamVars, closeVars, dataVars>>

\* the caller takes the outcome of the put
PutReturn ==
    /\ pc = "done"
    /\ op' = "none"
    /\ pc' = "idle"
    /\ attempts' = 0
    /\ log' = <<>>
    /\ outcome' = None
    /\ file' = [content |-> <<>>, pos |-> 0]
    /\ bodies' = <<>>
    /\ UNCHANGED <<concVars, msgVars, wireVars, loopVars, configVars, policyVars, protocol, bridgeVars, streamVars, closeVars, dataVars>>

PutInit ==
    /\ protocol = "rest"
    /\ CallIdle
    /\ BridgeIdle
    /\ StreamIdle
    /\ Constructed
    /\ DataIdle
    /\ PolicyIdle
    /\ ConfigDefault
    /\ FileIdle
    /\ NoLoops
    /\ NoRequests
    /\ NoMessages
    /\ ConcIdle

PutNext ==
    \/ \E content \in ObjectValues : PutFile(content)
    \/ \E sig \in PutSignals : PutAttempt(sig)
    \/ PutReturn

PutSpec == PutInit /\ [][PutNext]_vars

-----------------------------------------------------------------------------
(* _run_async called from several threads on one facade *)

\* what the coroutines of concurrent operations produce: different results,
\* an error of the taxonomy, a RuntimeError
ConcOutcomes ==
    {QuicClient("get", HttpSignal(200, "text", d)) : d \in Payloads}
    \cup {QuicClient("get", HttpSignal(404, "text", 0)), Err("RuntimeError", "closed_client")}

\* result and exception kept in one place shared by all invocations
SharedCell(t) == 1

\* "result = None; exception = None ... nonlocal result, exception": the
\* variables are locals of the invocation, bound by its own run_in_thread
ResultCell(t) == t

\* thread t calls a facade operation, which enters _run_async(coro)
ConcCall(t, c, r) ==
    /\ c_pc[t] = "idle"
    /\ c_pc' = [c_pc EXCEPT ![t] = "get_running_loop"]
    /\ c_coro' = [c_coro EXCEPT ![t] = c]
    /\ c_running' = [c_running EXCEPT ![t] = r]
    /\ UNCHANGED <<c_thread, c_cell, c_returned>>
    /\ UNCHANGED <<msgVars, wireVars, loopVars, putVars, configVars, policyVars, callVars, bridgeVars, streamVars, closeVars, dataVars>>

\* asyncio.get_running_loop() on thread t; with a running scheduler: result =
\* None, exception = None, thread.start()
ConcGetRunningLoop(t) ==
    /\ c_pc[t] = "get_running_loop"
    /\ IF UseWorker(c_running[t])
       THEN /\ c_cell' = [c_cell EXCEPT ![ResultCell(t)] = [result |-> None, exception |-> None]]
            /\ c_thread' = [c_thread EXCEPT ![t] = "started"]
            /\ c_pc' = [c_pc EXCEPT ![t] = "join"]
       ELSE /\ c_pc' = [c_pc EXCEPT ![t] = "except_runtime_error"]
            /\ UNCHANGED <<c_thread, c_cell>>
    /\ UNCHANGED <<c_coro, c_running, c_returned>>
    /\ UNCHANGED <<msgVars, wireVars, loopVars, putVars, configVars, policyVars, callVars, bridgeVars, streamVars, closeVars, dataVars>>

\* run_in_thread of caller t: a loop of its own, run_until_complete(coro),
\* the outcome stored in result or exception, the loop closed
ConcRunInThread(t) ==
    /\ c_thread[t] = "started"
    /\ c_thread' = [c_thread EXCEPT ![t] = "dead"]
    /\ c_cell' = [c_cell EXCEPT ![ResultCell(t)] =
                     [result    |-> IF c_coro[t].kind = "ok" THEN c_coro[t] ELSE @.result,
                      exception |-> IF IsException(c_coro[t]) THEN c_coro[t] ELSE @.exception]]
    /\ UNCHANGED <<c_pc, c_coro, c_running, c_returned>>
    /\ UNCHANGED <<msgVars, wireVars, loopVars, putVars, configVars, policyVars, callVars, bridgeVars, streamVars, closeVars, dataVars>>

\* thread.join() returns on caller t: "if exception: raise exception; return
\* result"; a RuntimeError raised there enters "except RuntimeError"
ConcJoin(t) ==
    /\ c_pc[t] = "join"
    /\ Joined(c_thread[t])
    /\ LET cell == c_cell[ResultCell(t)]
       IN  IF cell.exception # None
           THEN IF cell.exception.err = "RuntimeError"
                THEN /\ c_pc' = [c_pc EXCEPT ![t] = "except_runtime_error"]
                     /\ c_returned' = c_returned
                ELSE /\ c_pc' = [c_pc EXCEPT ![t] = "returned"]
                     /\ c_returned' = [c_returned EXCEPT ![t] = cell.exception]
           ELSE /\ c_pc' = [c_pc EXCEPT ![t] = "returned"]
                /\ c_returned' = [c_returned EXCEPT ![t] = cell.result]
    /\ UNCHANGED <<c_coro, c_running, c_thread, c_cell>>
    /\ UNCHANGED <<msgVars, wireVars, loopVars, putVars, configVars, policyVars, callVars, bridgeVars, streamVars, closeVars, dataVars>>

\* except RuntimeError on caller t: asyncio.run(coro) on the caller's thread
ConcExceptRuntimeError(t) ==
    /\ c_pc[t] = "except_runtime_error"
    /\ c_pc' = [c_pc EXCEPT ![t] = "returned"]
    /\ c_returned' = [c_returned EXCEPT ![t] = AsyncioRun(c_running[t], c_coro[t])]
    /\ UNCHANGED <<c_coro, c_running, c_thread, c_cell>>
    /\ UNCHANGED <<msgVars, wireVars, loopVars, putVars, configVars, policyVars, callVars, bridgeVars, streamVars, closeVars, dataVars>>

\* caller t takes what the facade operation handed back; the locals of the
\* invocation are gone
ConcReturn(t) ==
    /\ c_pc[t] = "returned"
    /\ c_pc' = [c_pc EXCEPT ![t] = "idle"]
    /\ c_coro' = [c_coro EXCEPT ![t] = None]
    /\ c_running' = [c_running EXCEPT ![t] = FALSE]
    /\ c_thread' = [c_thread EXCEPT ![t] = "none"]
    /\ c_returned' = [c_returned EXCEPT ![t] = None]
    /\ c_cell' = [c_cell EXCEPT ![ResultCell(t)] = [result |-> None, exception |-> None]]
    /\ UNCHANGED <<msgVars, wireVars, loopVars, putVars, configVars, policyVars, callVars, bridgeVars, streamVars, closeVars, dataVars>>

ConcInit ==
    /\ protocol = "quic"
    /\ CallIdle
    /\ BridgeIdle
    /\ StreamIdle
    /\ Constructed
    /\ DataIdle
    /\ PolicyIdle
    /\ ConfigDefault
    /\ FileIdle
    /\ NoLoops
    /\ NoRequests
    /\ NoMessages
    /\ ConcIdle

ConcNext ==
    \/ \E t \in Callers, c \in ConcOutcomes, r \in BOOLEAN : ConcCall(t, c, r)
    \/ \E t \in Callers : ConcGetRunningLoop(t)
    \/ \E t \in Callers : ConcRunInThread(t)
    \/ \E t \in Callers : ConcJoin(t)
    \/ \E t \in Callers : ConcExceptRuntimeError(t)
    \/ \E t \in Callers : ConcReturn(t)

ConcSpec == ConcInit /\ [][ConcNext]_vars

-----------------------------------------------------------------------------
(* GrpcClient.get over the messages of the response stream *)

\* a GetResponse message: a data fragment, and possibly a metadata submessage
\* (of which the size field is kept)
GetResponses ==
    [data : ChunkValues, has_metadata : BOOLEAN, size : 0..MaxSize]

\* what the iterator returned by self.stub.Get(request) can deliver
ResponseStreams == UNION {[1..k -> GetResponses] : k \in 0..MaxMessages}

\* GrpcClient.get(key) consumes the messages msgs and returns (data, metadata)
GrpcGetCall(msgs) ==
    /\ ~get_result.present
    /\ responses' = msgs
    /\ get_result' = [present |-> TRUE, data |-> GrpcGet(msgs).data, size |-> GrpcGet(msgs).size]
    /\ UNCHANGED <<concVars, wireVars, loopVars, putVars, configVars, policyVars, callVars, bridgeVars, streamVars, closeVars, dataVars>>

\* the caller takes the tuple
GrpcGetReturn ==
    /\ get_result.present
    /\ responses' = <<>>
    /\ get_result' = [present |-> FALSE, data |-> <<>>, size |-> Absent]
    /\ UNCHANGED <<concVars, wireVars, loopVars, putVars, configVars, policyVars, callVars, bridgeVars, streamVars, closeVars, dataVars>>

GrpcGetInit ==
    /\ protocol = "grpc"
    /\ CallIdle
    /\ BridgeIdle
    /\ StreamIdle
    /\ Constructed
    /\ DataIdle
    /\ PolicyIdle
    /\ ConfigDefault
    /\ FileIdle
    /\ NoLoops
    /\ NoRequests
    /\ NoMessages
    /\ ConcIdle

GrpcGetNext ==
    \/ \E msgs \in ResponseStreams : GrpcGetCall(msgs)
    \/ GrpcGetReturn

GrpcGetSpec == GrpcGetInit /\ [][GrpcGetNext]_vars

-----------------------------------------------------------------------------
(* Vocabulary of the properties *)

\* the error kinds a retry must never follow
ClientErrors == {"Validation", "NotFound", "Authentication"}

\* the operations classified as idempotent-safe
IdempotentOps == {"get", "exists", "list", "get_metadata", "health", "delete"}

\* the operations for which an absent entity is reported as an error
AbsentOps == {"get", "get_metadata", "delete", "put", "archive"}

\* native signals, by class of failure
IsConnectionFailure(sig) ==
    \/ sig.type = "exc" /\ sig.name \in {"ConnectionError", "ConnectError"}
    \/ sig.type = "rpc" /\ sig.name = "UNAVAILABLE"

IsValidationFailure(sig) ==
    \/ sig.type = "http" /\ sig.status = 400
    \/ sig.type = "rpc" /\ sig.name = "INVALID_ARGUMENT"

IsAuthenticationFailure(sig) ==
    \/ sig.type = "http" /\ sig.status = 401
    \/ sig.type = "rpc" /\ sig.name = "UNAUTHENTICATED"

IsAbsent(sig) ==
    \/ sig.type = "http" /\ sig.status = 404
    \/ sig.type = "rpc" /\ sig.name = "NOT_FOUND"

IsUnmapped(sig) ==
    \/ sig.type = "http" /\ sig.status >= 400 /\ sig.status \notin {400, 401, 404}
    \/ sig.type = "rpc" /\ sig.name \notin {"OK", "NOT_FOUND", "DEADLINE_EXCEEDED",
                                            "UNAVAILABLE", "INTERNAL"}

AllFailed == \A i \in 1..Len(log) : log[i].out.kind = "err"

-----------------------------------------------------------------------------
(* Properties *)

\* C1: an attempt that fails with Validation, NotFound or Authentication is
\* the last attempt of its call (no further wire request follows it), and that
\* error is what the caller gets.
C1_ClientErrorEndsCall ==
    \A i \in 1..Len(log) :
        log[i].out.err \in ClientErrors =>
            /\ i = Len(log)
            /\ pc = "done" => outcome = log[i].out

\* C2: a put call issues at most one wire request, whatever the failure.
C2_PutSingleAttempt ==
    op = "put" => attempts <= 1

\* C3: for an idempotent-safe operation, when the transport fails with a
\* Connection-kind failure on the first two attempts and succeeds on the
\* third, the finished call has made three attempts and returns the third
\* attempt's success result.
C3_FollowsScenario(i) ==
    IF i <= 2 THEN IsConnectionFailure(log[i].sig) ELSE log[i].out.kind = "ok"

C3_RetryRecovers ==
    (/\ pc = "done"
     /\ op \in IdempotentOps
     /\ \A i \in 1..Len(log) : C3_FollowsScenario(i))
    => /\ Len(log) = 3
       /\ outcome.kind = "ok"
       /\ outcome = log[3].out

\* C4: a call never makes more than 3 attempts, and when every attempt failed
\* the error the caller gets is the error of the last attempt itself: not an
\* earlier attempt's error and not a wrapper.
C4_LastErrorSurfaced ==
    /\ attempts <= 3
    /\ Len(log) = attempts
    /\ (pc = "done" /\ AllFailed) => outcome = log[Len(log)].out

C4_Witness ==
    /\ pc = "done"
    /\ attempts = 3
    /\ AllFailed
    /\ log[1].out # log[3].out
    /\ log[2].out # log[3].out
    /\ outcome = log[3].out

\* C5: on every transport a request-validation failure (HTTP 400, gRPC
\* INVALID_ARGUMENT) raises Validation and an authentication failure (HTTP
\* 401, gRPC UNAUTHENTICATED) raises Authentication.  (exists is left out: its
\* contract is to report presence, not to raise.)
C5_SameKindOnAllTransports ==
    op # "exists" =>
        \A i \in 1..Len(log) :
            /\ IsValidationFailure(log[i].sig) => log[i].out.err = "Validation"
            /\ IsAuthenticationFailure(log[i].sig) => log[i].out.err = "Authentication"

\* C6: every native failure signal without a dedicated mapping (a non-success
\* HTTP status outside 400, 401, 404; a gRPC status code without a branch)
\* raises a Server error.  (exists is left out, as for C5.)
C6_UnmappedIsServer ==
    op # "exists" =>
        \A i \in 1..Len(log) :
            IsUnmapped(log[i].sig) => log[i].out.err = "Server"

\* C7: no raw exception of a transport library leaves an adapter or the
\* facade: every failure is raised as a taxonomy kind.
C7_NoRawException ==
    /\ \A i \in 1..Len(log) : log[i].out.err # "Raw"
    /\ outcome.err # "Raw"

\* C8: for get, get_metadata, delete, put and archive, an HTTP 404 response or
\* a gRPC NOT_FOUND status raises NotFound on each adapter, and a call whose
\* last attempt met it raises NotFound to the caller.
C8_AbsentIsNotFound ==
    op \in AbsentOps =>
        /\ \A i \in 1..Len(log) :
              IsAbsent(log[i].sig) => log[i].out.err = "NotFound"
        /\ (pc = "done" /\ IsAbsent(log[Len(log)].sig)) => outcome.err = "NotFound"

C8_Witness ==
    /\ pc = "done"
    /\ protocol = "rest"
    /\ op = "archive"
    /\ IsAbsent(log[Len(log)].sig)
    /\ outcome.err = "NotFound"

\* C9: exists never raises NotFound; on the transport's absent signal it
\* returns exists == false.
C9_ExistsNeverNotFound ==
    op = "exists" =>
        \A i \in 1..Len(log) :
            /\ log[i].out.err # "NotFound"
            /\ IsAbsent(log[i].sig) => log[i].out = Ok("exists_false", 0, TRUE)

\* C10: a bridged call made while a scheduler is running on the calling
\* context always returns (no deadlock), and when the coroutine produced a
\* value the call returns exactly that value.
C10_BridgeReturns ==
    /\ [](bpc = "returned" /\ running /\ coro.kind = "ok" => returned = coro)
    /\ ((bpc = "get_running_loop" /\ running) ~> bpc = "returned")

C10_Witness ==
    /\ bpc = "returned"
    /\ running
    /\ thread = "dead"
    /\ coro.kind = "ok"
    /\ returned = coro

\* C11: when _run_async went through the worker, the call hands its caller
\* exactly what the coroutine produced on the worker: the same exception when
\* it raised an Exception of whatever type, the value otherwise; never another
\* error and never an empty result.  (A cancellation, which is a BaseException
\* only, is left out of the statement.)
C11_WorkerOutcomeHandedOn ==
    (bpc = "returned" /\ thread = "dead" /\ coro.err # "CancelledError")
    => returned = coro

\* the bridge workers that are alive: started and not yet ended
LiveWorkers == IF thread \in {"started", "running", "finally"} THEN 1 ELSE 0

C12_NoSecondSchedulerOnCaller ==
    running => "caller" \notin driven

\* C14: every resource a get_stream generator acquired is released: on
\* exhaustion when the generator ends, on abandonment after partial
\* consumption at the latest when the abandoned generator has been reclaimed.
\* The response (connection, RPC) is no longer held and, for the QUIC facade,
\* the scheduler of the stream is closed.
C14_StreamResourcesReleased ==
    (spc = "exhausted" \/ (spc = "abandoned" /\ collected))
    => /\ response \in {"none", "released"}
       /\ protocol = "quic" => stream_loop \in {"none", "closed"}

IsNonEmpty(chunk) == chunk # <<>>

\* the non-empty chunks of s, in the order of s
NonEmpty(s) == SelectSeq(s, IsNonEmpty)

\* the bytes of a sequence of chunks
RECURSIVE Flatten(_)
Flatten(s) == IF s = <<>> THEN <<>> ELSE Head(s) \o Flatten(Tail(s))

\* C15: get_stream yields the non-empty chunks, each once, in the order in
\* which they arrived: what has been yielded so far is exactly the non-empty
\* chunks among those taken from the wire, and once the stream is exhausted it
\* is all of them and its concatenation is the full object.
C15_ChunksInArrivalOrder ==
    /\ yielded = NonEmpty(SubSeq(sent, 1, pos))
    /\ spc = "exhausted" =>
          /\ yielded = NonEmpty(sent)
          /\ Flatten(yielded) = Flatten(sent)

C15_Witness ==
    /\ protocol = "quic"
    /\ spc = "exhausted"
    /\ Len(sent) = 3
    /\ Len(yielded) = 2
    /\ yielded[1] # yielded[2]
    /\ sent[2] = <<>>

C18_SameAcrossAdapters ==
    \A p \in Protocols, q \in Protocols :
        (/\ got[p].present /\ got[q].present
         /\ got[p].key = got[q].key
         /\ got[p].supplied /\ got[q].supplied)
        => /\ got[p].data = got[q].data
           /\ got[p].size = got[q].size

\* C19: a metadata field the server did not supply is absent in the value the
\* adapter returns: a get whose response carries no size (no Content-Length
\* header, no metadata submessage) reports an absent size, not 0.
C19_UnsuppliedSizeAbsent ==
    \A p \in Protocols :
        (got[p].present /\ ~got[p].supplied) => got[p].size = Absent

\* the operations whose gRPC reply carries a success flag
FlaggedOps == Ops \ {"get", "list", "health", "exists"}

\* the transport reports a failure of operation o: a non-success HTTP status,
\* a gRPC error status, or a reply whose success flag is false.  (The absent
\* signal is not a failure for exists.)
IsFailure(o, sig) ==
    /\ ~(o = "exists" /\ IsAbsent(sig))
    /\ \/ sig.type = "http" /\ sig.status >= 400
       \/ sig.type = "rpc" /\ sig.name # "OK"
       \/ sig.type = "rpc" /\ sig.name = "OK" /\ sig.body = "failure" /\ o \in FlaggedOps

\* C20: no adapter swallows a failure: when the transport reports one, the
\* attempt raises an error; it never returns a value that reads as a success
\* (an empty Metadata, an empty-id ReplicationPolicy, exists == false).
C20_NoSwallowedError ==
    \A i \in 1..Len(log) :
        IsFailure(op, log[i].sig) =>
            \/ log[i].out.kind = "err"
            \/ log[i].out.kind = "ok" /\ ~log[i].out.success

\* C21: the retention of a constructed LifecyclePolicy: the given
\* retention_seconds when there is one (whatever days_after_creation is),
\* otherwise days_after_creation * 86400 when that is given, otherwise 2592000.
C21_RetentionDerived ==
    policy.present =>
        policy.retention_seconds =
            IF policy.given.some THEN policy.given
            ELSE IF policy.days_after_creation.some
                 THEN Some(policy.days_after_creation.n * 86400)
                 ELSE Some(2592000)

C21_Witness ==
    /\ policy.present
    /\ ~policy.given.some
    /\ policy.days_after_creation = Some(30)
    /\ policy.retention_seconds = Some(2592000)

\* C22: whatever the policy, the payload add_policy sends on each adapter
\* contains retention_seconds (with the policy's value) and does not contain
\* days_after_creation.
C22_DaysNeverOnWire ==
    payload.by # "" =>
        /\ "retention_seconds" \in payload.fields
        /\ payload.retention_seconds = policy.retention_seconds
        /\ payload.retention_seconds.some
        /\ "days_after_creation" \notin payload.fields

C22_Witness ==
    /\ payload.by = "quic"
    /\ policy.days_after_creation = Some(30)
    /\ "retention_seconds" \in payload.fields
    /\ "destination_type" \notin payload.fields
    /\ "days_after_creation" \notin payload.fields

\* C23: a client constructed with max_retries = n never issues more than n
\* wire attempts in one operation call.
C23_MaxRetriesHonoured ==
    attempts <= max_retries

\* C24: every attempt of a REST put given a file-like object transmits the
\* full original content of the stream, on a retry as on the first attempt.
C24_SameBodyEveryAttempt ==
    \A i \in 1..Len(bodies) : bodies[i] = file.content

\* C25: without a running scheduler the QUIC facade drives its operations with
\* one scheduler of its own: created lazily by the first call, reused by every
\* later call on the open facade, so that the facade never creates a second
\* one
C25_OwnedSchedulerReused ==
    protocol = "quic" => run_loops <= 1

\* C26: REST and QUIC classify an HTTP response in the same way: for the
\* operation under way and every response received, both adapters succeed or
\* both raise the same kind of error.
C26_SameClassification ==
    \A i \in 1..Len(log) :
        log[i].sig.type = "http" =>
            /\ RestClient(op, log[i].sig).kind = QuicClient(op, log[i].sig).kind
            /\ RestClient(op, log[i].sig).err = QuicClient(op, log[i].sig).err

\* C30: on REST and QUIC a failure is signalled only by raising: an attempt
\* answered by an HTTP response raises, or returns a result whose success flag
\* is true; the returns after _handle_error are never reached.
C30_FailureOnlyByRaising ==
    protocol \in {"rest", "quic"} =>
        \A i \in 1..Len(log) :
            log[i].sig.type = "http" =>
                \/ log[i].out.kind = "err"
                \/ log[i].out.kind = "ok" /\ log[i].out.success /\ log[i].out.val # "empty"

\* a REST or QUIC operation with a success flag was answered by a status that
\* has no branch of its own in _handle_error, and raised
C30_Witness ==
    /\ protocol \in {"rest", "quic"}
    /\ HasSuccessFlag(op)
    /\ Len(log) >= 1
    /\ log[1].sig.type = "http"
    /\ log[1].sig.status = 403
    /\ log[1].out.kind = "err"
    /\ log[1].out.err = "Base"

\* C27: the REST get_stream is never retried.  One call and its consumption
\* send at most one request; calling get_stream sends nothing and raises
\* nothing; a failed request (connection failure, timeout, 404) is raised to
\* the consumer when it first advances the sequence, after that one request
\* and before any chunk.
C27_StreamNeverRetried ==
    protocol = "rest" =>
        /\ requests <= 1
        /\ spc = "created" => requests = 0 /\ stream_error = None
        /\ spc \in {"streaming", "exhausted", "failed"} => requests = 1
        /\ (spc = "failed" /\ ~StreamOk(stream_sig)) =>
               /\ requests = 1
               /\ yielded = <<>>
               /\ stream_error.kind = "err"
               /\ IsConnectionFailure(stream_sig) => stream_error.err = "Connection"
               /\ (stream_sig.type = "exc" /\ stream_sig.name = "Timeout") =>
                      stream_error.err = "Timeout"
               /\ IsAbsent(stream_sig) => stream_error.err = "NotFound"

\* the REST stream was answered 404 and the consumer's first advance raised
\* NotFound
C27_Witness ==
    /\ protocol = "rest"
    /\ spc = "failed"
    /\ stream_sig.type = "http"
    /\ stream_sig.status = 404
    /\ stream_error.err = "NotFound"
    /\ requests = 1
    /\ yielded = <<>>

\* the data fields of the messages, in order
RECURSIVE DataInOrder(_)
DataInOrder(msgs) ==
    IF msgs = <<>> THEN <<>> ELSE Head(msgs).data \o DataInOrder(Tail(msgs))

\* the size of the first message bearing metadata; absent when there is none
\* (a size of 0 is the unset value of the field)
RECURSIVE FirstMetadataSize(_)
FirstMetadataSize(msgs) ==
    IF msgs = <<>> THEN Absent
    ELSE IF Head(msgs).has_metadata
         THEN (IF Head(msgs).size = 0 THEN Absent ELSE Some(Head(msgs).size))
         ELSE FirstMetadataSize(Tail(msgs))

\* C28: GrpcClient.get returns the data fragments of the messages concatenated
\* in arrival order, and the metadata of the first message bearing a metadata
\* submessage: a later one does not replace it, and with no such message the
\* metadata is empty.
C28_FirstMetadataKept ==
    get_result.present =>
        /\ get_result.data = DataInOrder(responses)
        /\ get_result.size = FirstMetadataSize(responses)

\* C29: calls made at the same time from different threads through one QUIC
\* facade are isolated: whatever the interleaving, a caller is handed the
\* result or the exception of its own coroutine (what the same call hands back
\* when it is made alone), never that of another call.
C29_CallsIsolated ==
    \A t \in Callers :
        c_pc[t] = "returned" => c_returned[t] = RunAsyncOutcome(c_running[t], c_coro[t])

\* no lock serializes the calls: a caller has been handed its own result while
\* another call, of a different coroutine, is under way with its worker
\* started and not yet run
C29_Witness ==
    \E t, u \in Callers :
        /\ t # u
        /\ c_coro[t] # c_coro[u]
        /\ c_pc[t] = "returned"
        /\ c_running[t]
        /\ c_returned[t] = c_coro[t]
        /\ c_pc[u] = "join"
        /\ c_thread[u] = "started"

\* what _run_async hands back is what RunAsyncOutcome computes
BridgeAgreesWithOutcome ==
    bpc = "returned" => returned = RunAsyncOutcome(running, coro)

====
